---- MODULE Spec2Model ----
(***************************************************************************)
(* Model of the Lens Studio monitoring scripts of spectacular-detection:   *)
(*   - the posture monitor          (HeadAngle.js, lines 1-326),           *)
(*   - the brightness monitor       (BrightnessCalculator.js),             *)
(*   - the earlier brightness script appended to HeadAngle.js              *)
(*     (lines 329-643), called "legacy" here.                              *)
(* Each script is a per-frame onUpdate callback over its own `state`       *)
(* object; the scripts share only the host clock getTime() and the         *)
(* process-wide flag global.alert.  A behaviour of the model follows one   *)
(* script (variable `script`, fixed at load); what other scripts did to    *)
(* global.alert before this one loaded is the value `priorAlert`.          *)
(*                                                                         *)
(* Numbers.  Time is counted in whole clock units.  The JavaScript doubles *)
(* that carry brightness are modelled by a miniature binary floating-point *)
(* format: a value is an integer count of 2^-GridBits, representable when  *)
(* it has at most MantBits significant bits, and every arithmetic          *)
(* operation rounds its exact result to the nearest representable value,   *)
(* ties to even, as IEEE-754 does with 53 bits.                            *)
(* The luminance formula alone is also evaluated on 53-bit doubles.        *)
(***************************************************************************)
EXTENDS Integers, Sequences, FiniteSets, TLC

VARIABLES
    script,        \* which script this behaviour follows
    input,         \* script.* : the inputs configured on the component
    env,           \* what the host may do in this behaviour
    state,         \* the script's `state` object
    now,           \* the host clock, what getTime() returns
    alert,         \* global.alert
    priorAlert,    \* global.alert as found when the script was loaded
    warningText,   \* posture: script.warningTextComponent.text
    display,       \* brightness: cachedText, lastDisplayedValue, component text
    inflight,      \* telemetry requests issued and not yet completed
    obs            \* history the properties are stated over

vars == <<script, input, env, state, now, alert, priorAlert, warningText, display,
          inflight, obs>>

-----------------------------------------------------------------------------
(* Bounds of the model *)

MaxFrames == 4
MaxTime == 4
MaxDt == 2
MaxTriggerDuration == 2
MaxSendInterval == 2
MaxCalculationInterval == 2
MantBits == 4
GridBits == 7

-----------------------------------------------------------------------------
(* Miniature floating point *)

One == 2 ^ GridBits

Abs(x) == IF x < 0 THEN 0 - x ELSE x

\* Spacing of the representable values around the rational num/den: the
\* least power of two sp >= 1 with num/den < 2^MantBits * sp.
RECURSIVE FUlpFrom(_, _, _)
FUlpFrom(num, den, sp) ==
    IF num < (2 ^ MantBits) * sp * den THEN sp ELSE FUlpFrom(num, den, 2 * sp)

FUlp(num, den) == FUlpFrom(num, den, 1)

\* The multiple of sp nearest to the non-negative rational num/den, ties to
\* the even multiple.
FNearest(num, den, sp) ==
    IF \/ 2 * (num % (den * sp)) > den * sp
       \/ 2 * (num % (den * sp)) = den * sp /\ (num \div (den * sp)) % 2 = 1
    THEN ((num \div (den * sp)) + 1) * sp
    ELSE (num \div (den * sp)) * sp

\* Round the non-negative rational num/den to the nearest representable value,
\* ties to the even significand.
FRoundPos(num, den) == FNearest(num, den, FUlp(num, den))

FRound(num, den) ==
    IF num < 0 THEN 0 - FRoundPos(0 - num, den) ELSE FRoundPos(num, den)

FAdd(a, b) == FRound(a + b, 1)
FSub(a, b) == FRound(a - b, 1)
FMul(a, b) == FRound(a * b, One)
FDiv(a, b) == FRound(a * One, b)

\* A decimal literal num/den of the source, as the nearest representable value.
Lit(num, den) == FRound(num * One, den)

\* An integer n (a byte, a count) as a number.
Num(n) == FRound(n * One, 1)

-----------------------------------------------------------------------------
(* IEEE 754 doubles *)

(* The luminance formula is also evaluated as the source evaluates it, in   *)
(* binary64: a double above 0 is its DoubleBits significant bits, most      *)
(* significant first, and the exponent e of the first of them.  Sums,       *)
(* products and quotients are computed exactly on bit strings and rounded   *)
(* to nearest, ties to even.                                                *)

\* Significant bits of a JavaScript Number.
DoubleBits == 53

Zeros(n) == SubSeq([i \in 1..n |-> 0], 1, n)

RECURSIVE StripZeros(_)
StripZeros(b) == IF Len(b) > 0 /\ b[1] = 0 THEN StripZeros(Tail(b)) ELSE b

\* The carry into position i of the sum of two equally long bit strings.
CarryInto(a, b, i) ==
    IF \E j \in (i + 1)..Len(a) :
          /\ a[j] = 1 /\ b[j] = 1
          /\ \A k \in (i + 1)..(j - 1) : a[k] + b[k] = 1
    THEN 1 ELSE 0

AddPadded(x1, y1, n) ==
    SubSeq([i \in 1..n |-> (x1[i] + y1[i] + CarryInto(x1, y1, i)) % 2], 1, n)

\* The sum of two bit strings, one bit longer than the longer of them.
AddBits(a, b) ==
    LET n == 1 + (IF Len(a) > Len(b) THEN Len(a) ELSE Len(b))
    IN  AddPadded(Zeros(n - Len(a)) \o a, Zeros(n - Len(b)) \o b, n)

\* The product of two bit strings: acc is a times b[1..i-1].
RECURSIVE MulFrom(_, _, _, _)
MulFrom(a, b, i, acc) ==
    IF i > Len(b) \/ Len(acc) < 0 THEN acc
    ELSE MulFrom(a, b, i + 1,
                 IF b[i] = 1 THEN StripZeros(AddBits(Append(acc, 0), a))
                 ELSE Append(acc, 0))

MulBits(a, b) == MulFrom(a, b, 1, <<>>)

DZero == [m |-> <<>>, e |-> 0]

DOne == [m |-> <<1>> \o Zeros(DoubleBits - 1), e |-> 0]

\* The double nearest to the number with bits b (b[1] = 1, weighing 2^e),
\* ties to even; sticky tells that the exact number is larger than b, by
\* less than its last bit.
DRound(b, e, sticky) ==
    IF Len(b) <= DoubleBits
    THEN [m |-> b \o Zeros(DoubleBits - Len(b)), e |-> e]
    ELSE LET kept  == SubSeq(b, 1, DoubleBits)
             guard == b[DoubleBits + 1]
             rest  == sticky \/ \E i \in (DoubleBits + 2)..Len(b) : b[i] = 1
             up    == guard = 1 /\ (rest \/ kept[DoubleBits] = 1)
             s     == IF up THEN AddBits(kept, <<1>>) ELSE <<0>> \o kept
         IN  IF s[1] = 1
             THEN [m |-> SubSeq(s, 1, DoubleBits), e |-> e + 1]
             ELSE [m |-> Tail(s), e |-> e]

\* The double nearest to the integer with bits b whose last bit weighs 2^eLast.
DNormal(b, eLast) ==
    LET s == StripZeros(b)
    IN  IF Len(s) = 0 THEN DZero ELSE DRound(s, eLast + Len(s) - 1, FALSE)

\* a + b of two doubles that are not negative.
DAdd(a, b) ==
    IF a = DZero THEN b
    ELSE IF b = DZero THEN a
    ELSE LET hi == IF a.e >= b.e THEN a ELSE b
             lo == IF a.e >= b.e THEN b ELSE a
         IN  DNormal(AddBits(hi.m \o Zeros(hi.e - lo.e), lo.m),
                     lo.e - (DoubleBits - 1))

\* a * b
DMul(a, b) ==
    IF a = DZero \/ b = DZero THEN DZero
    ELSE DNormal(MulBits(a.m, b.m), a.e + b.e - 2 * (DoubleBits - 1))

\* The bits of num / den after the binary point, up to DoubleBits + 1 bits
\* from the first 1: r is the remainder so far, lead the zeros before the
\* first 1, got the bits since.
RECURSIVE QuotientBits(_, _, _, _)
QuotientBits(r, den, lead, got) ==
    IF Len(got) = DoubleBits + 1 \/ (r = 0 /\ Len(got) > 0)
    THEN [bits |-> got, lead |-> lead, sticky |-> r # 0]
    ELSE IF r = 0 THEN [bits |-> <<>>, lead |-> 0, sticky |-> FALSE]
    ELSE LET bit == IF 2 * r >= den THEN 1 ELSE 0
             r2  == 2 * r - bit * den
         IN  IF bit = 0 /\ Len(got) = 0
             THEN QuotientBits(r2, den, lead + 1, got)
             ELSE QuotientBits(r2, den, lead, Append(got, bit))

\* The double num / den of two integers 0 <= num <= den: a decimal literal
\* of the source, or the quotient of two small integers.
DRatio(num, den) ==
    IF num = den THEN DOne
    ELSE LET q == QuotientBits(num, den, 0, <<>>)
         IN  IF Len(q.bits) = 0 THEN DZero
             ELSE DRound(q.bits, 0 - (q.lead + 1), q.sticky)

RECURSIVE BitsLess(_, _, _)
BitsLess(a, b, i) ==
    IF i > Len(a) THEN FALSE
    ELSE IF a[i] # b[i] THEN a[i] < b[i]
    ELSE BitsLess(a, b, i + 1)

\* a < b and a <= b
DLess(a, b) ==
    IF b = DZero THEN FALSE
    ELSE IF a = DZero THEN TRUE
    ELSE IF a.e # b.e THEN a.e < b.e
    ELSE BitsLess(a.m, b.m, 1)

DLeq(a, b) == a = b \/ DLess(a, b)

-----------------------------------------------------------------------------
(* Inputs and initial state: posture monitor (HeadAngle.js) *)

Scripts == {"posture", "brightness", "legacy"}

\* @input float pitchThreshold = 20.0, in tenths of a degree.
DefaultPitchThreshold == 200

\* Texture sizes (width, height) the camera may report.
TextureSizes == { <<2, 2>>, <<4, 2>> }

\* RGBA bytes a pixel read may deliver.
Black == <<0, 0, 0>>
Red   == <<255, 0, 0>>
White == <<255, 255, 255>>
Pixels == { Black, Red, White }

\* global.alert as a script finds it at load: never assigned, or left false
\* or true by another script.
Priors == {"undefined", "false", "true"}

\* What the host does in a behaviour: the texture sizes it reports, the pixel
\* colours the camera shows, the values Math.random() returns, the clock steps
\* between two frames, whether sensors, textures and pixel reads may be
\* missing or fail, whether building a telemetry request may throw, whether
\* another script assigned its own function to the exported trigger, and the
\* number of frames the behaviour is followed for.
SteadyEnv ==
    [sizes        |-> { <<2, 2>> },
     pixels       |-> Pixels,
     draws        |-> {0},
     dts          |-> {1},
     sensorFaults |-> FALSE,
     sendFaults   |-> FALSE,
     override     |-> FALSE,
     frames       |-> MaxFrames]

\* An irregular frame clock.
JitterEnv == [SteadyEnv EXCEPT !.dts = 0..MaxDt]

\* Another script replaced script.api.onTrigger / script.api.onBrightnessTrigger.
OverrideEnv == [JitterEnv EXCEPT !.override = TRUE]

SendFaultEnv == [SteadyEnv EXCEPT !.sendFaults = TRUE, !.pixels = {Black, White}]

SensorFaultEnv == [SteadyEnv EXCEPT !.sensorFaults = TRUE, !.pixels = {White}]

\* The camera texture may be missing on a frame of a longer run.
DropoutEnv ==
    [SensorFaultEnv EXCEPT !.dts = {0, 1}, !.frames = MaxFrames + 1]

\* The camera changes resolution, and Math.random() varies.
ResizeEnv ==
    [SteadyEnv EXCEPT !.sizes = TextureSizes, !.draws = {0, One \div 2},
                      !.pixels = {White}]

\* The behaviours explored start from one baseline per script, varied one
\* group of inputs at a time, each group in the environment that exercises it.
Scenario(i, e, a) == [input |-> i, env |-> e, prior |-> a]

Across(inputs, e) == { Scenario(i, e, "undefined") : i \in inputs }

PostureBase ==
    [pitchThreshold       |-> DefaultPitchThreshold,
     triggerDuration      |-> 1,
     warningTextComponent |-> TRUE,
     sendToBackend        |-> FALSE,
     backendUrl           |-> TRUE,
     sendInterval         |-> 1]

\* Telemetry switched on: sendInterval and backendUrl (set or empty) varied.
TelemetryOn(base) ==
    { [base EXCEPT !.sendToBackend = TRUE, !.backendUrl = u, !.sendInterval = n] :
        u \in BOOLEAN, n \in 1..MaxSendInterval }

PostureScenarios ==
    UNION {
        { Scenario(PostureBase, JitterEnv, a) : a \in Priors },
        Across({ [PostureBase EXCEPT !.triggerDuration = d] :
                    d \in 1..MaxTriggerDuration }, JitterEnv),
        Across({ [PostureBase EXCEPT !.warningTextComponent = FALSE] }, JitterEnv),
        Across(TelemetryOn(PostureBase), [JitterEnv EXCEPT !.sendFaults = TRUE]),
        Across({ PostureBase }, [JitterEnv EXCEPT !.sensorFaults = TRUE]),
        Across({ PostureBase }, OverrideEnv) }

\* The `state` object literal.
PostureState0 ==
    [pitchAngle     |-> 0,
     isLookingDown  |-> FALSE,
     downDuration   |-> 0,
     lastUpdateTime |-> 0,
     lastSentFrame  |-> 0,
     frameCount     |-> 0,
     triggerActive  |-> FALSE,
     hasTriggered   |-> FALSE,
     deviceTracking |-> FALSE,
     headTransform  |-> FALSE]

\* initialize(): latch the DeviceTracking input when it is assigned, and
\* restart the frame clock.  `tracking` is script.deviceTracking being set.
PostureInitialize(st, tracking, time) ==
    [st EXCEPT !.deviceTracking = IF tracking THEN TRUE ELSE @,
               !.lastUpdateTime = time]

\* A variant of the load that clears the flag whatever it finds.
LoadAlertCleared(prior) == FALSE

\* Script load: `if (typeof global.alert === 'undefined') global.alert = false`.
\* prior is "undefined", or "true" / "false" as another script left it.
LoadAlert(prior) == IF prior = "undefined" THEN FALSE ELSE prior = "true"

\* A variant of the trigger function that leaves the flag as it is.
OnTriggerAlertKept(a) == a

\* onTrigger / onBrightnessTrigger: `global.alert = true`.
OnTriggerAlert(a) == TRUE

\* global.alert after a tick on which the trigger fired or did not.
AlertAfter(a, fired) == IF fired THEN OnTriggerAlert(a) ELSE a

-----------------------------------------------------------------------------
(* Head rotation and pitch *)


\* Quaternions the tracker may report, components in thousandths:
\* about 10 degrees of pitch (the scenario of the specification), about 20
\* degrees, and a non-unit quaternion whose sinp lies outside [-1, 1].
Rotations ==
    { [w |-> 996, x |-> 87,  y |-> 0, z |-> 0],
      [w |-> 985, x |-> 174, y |-> 0, z |-> 0],
      [w |-> 800, x |-> 800, y |-> 0, z |-> 0] }

\* Math.asin in tenths of a degree, on the sinp values (in millionths) of Rotations.
AsinTenths(sinp) ==
    CASE sinp = 173304 -> 100
      [] sinp = 342780 -> 200
      [] OTHER -> 0

\* getPitchAngle(rotation): asin of sinp = 2(wx - yz), +-90 degrees when
\* |sinp| >= 1; in tenths of a degree.
GetPitchAngle(rotation) ==
    LET sinp == 2 * (rotation.w * rotation.x - rotation.y * rotation.z)
    IN  IF Abs(sinp) >= 1000000
        THEN (IF sinp > 0 THEN 900 ELSE IF sinp < 0 THEN 0 - 900 ELSE 0)
        ELSE AsinTenths(sinp)

-----------------------------------------------------------------------------
(* Posture monitor: onUpdate *)

\* `state.isLookingDown = state.pitchAngle < script.pitchThreshold`
PostureExceeds(pitch, threshold) == pitch < threshold

\* A variant that is already active when the duration equals triggerDuration.
DurationReached(duration, triggerDuration) == duration >= triggerDuration

\* A variant that needs one clock unit more than triggerDuration.
DurationWellOver(duration, triggerDuration) == duration > triggerDuration + 1

\* `state.triggerActive = state.downDuration > script.triggerDuration`
DurationExceeded(duration, triggerDuration) == duration > triggerDuration

\* A level-triggered variant: fires on every tick while the trigger is active.
LevelTrigger(triggerActive, wasTriggerActive, hasTriggered) == triggerActive

\* `if (state.triggerActive && !wasTriggerActive && !state.hasTriggered)`
ShouldTrigger(triggerActive, wasTriggerActive, hasTriggered) ==
    triggerActive /\ ~wasTriggerActive /\ ~hasTriggered

\* A variant of the reset that does not re-arm the trigger.
PostureResetStaysFired(st) ==
    [st EXCEPT !.downDuration = 0, !.triggerActive = FALSE]

\* The else branch of the duration update: looking up resets the duration
\* and the trigger state.
PostureReset(st) ==
    [st EXCEPT !.downDuration = 0, !.triggerActive = FALSE, !.hasTriggered = FALSE]

\* The threshold timer of onUpdate, from the new pitch to hasTriggered.
\* Returns the new state and whether onTrigger() was called.
PostureTimer(st, pitch, deltaTime) ==
    LET looking  == PostureExceeds(pitch, input.pitchThreshold)
        s1 == [st EXCEPT !.pitchAngle = pitch, !.isLookingDown = looking]
        s2 == IF looking
              THEN [s1 EXCEPT !.downDuration = @ + deltaTime]
              ELSE PostureReset(s1)
        wasTriggerActive == s2.triggerActive
        active == DurationExceeded(s2.downDuration, input.triggerDuration)
        fire == ShouldTrigger(active, wasTriggerActive, s2.hasTriggered)
    IN  [st   |-> [s2 EXCEPT !.triggerActive = active,
                             !.hasTriggered = IF fire THEN TRUE ELSE @],
         fire |-> fire]

\* A variant that turns urgent as soon as the duration reaches twice
\* triggerDuration.
WarningMessageUrgentEarly(st) ==
    IF st.triggerActive
    THEN IF st.downDuration >= input.triggerDuration * 2
         THEN <<"URGENT: Look Up Now!", st.downDuration>>
         ELSE <<"Look Up! You've been looking down for", st.downDuration>>
    ELSE <<"">>

\* updateWarningDisplay(): the text of the warning component.  The duration
\* printed by toFixed(1) is the whole number of clock units.
WarningMessage(st) ==
    IF st.triggerActive
    THEN IF st.downDuration > input.triggerDuration * 2
         THEN <<"URGENT: Look Up Now!", st.downDuration>>
         ELSE <<"Look Up! You've been looking down for", st.downDuration>>
    ELSE <<"">>

\* A variant of the send that waits for the requests in flight to complete.
RequestIssuedWhenIdle(throws) ==
    input.sendToBackend /\ input.backendUrl /\ ~throws /\ inflight = 0

\* A variant of the throttle that waits one frame longer.
SendDueLate(st) ==
    input.sendToBackend /\ (st.frameCount - st.lastSentFrame) > input.sendInterval

\* A variant without the throttle: a send on every frame.
SendEveryFrame(st) == input.sendToBackend

\* The throttle of the telemetry send.
SendDue(st) ==
    input.sendToBackend /\ (st.frameCount - st.lastSentFrame) >= input.sendInterval

\* sendToBackend / sendBrightnessToBackend: a request goes out unless the URL
\* is empty or building the request throws (InternetModule missing).
RequestIssued(throws) ==
    input.sendToBackend /\ input.backendUrl /\ ~throws

\* The history kept for the properties.
Obs0 ==
    [triggerCount |-> 0,      \* calls of the trigger function
     episodeFires |-> 0,      \* of them, since the exceed condition was last false
     episodesOver |-> 0,      \* episodes whose duration went above triggerDuration
     sendFrames   |-> <<>>,   \* frameCount of every call of the send function
     nCalc        |-> 0,      \* brightness samples calculated
     firstRaw     |-> 0,      \* the first of them
     constRaw     |-> TRUE,   \* all of them equal so far
     skipped      |-> FALSE,  \* some call of onUpdate returned early
     timed        |-> FALSE,  \* the last call of onUpdate ran the threshold timer
     retried      |-> FALSE,  \* the last call of onUpdate retried initialize()
     retriedTwice |-> FALSE,  \* two calls of onUpdate in a row retried it
     callee       |-> "none", \* the function the last trigger call invoked
     reads        |-> <<>>,   \* outcomes of the getPixels calls of the last sample
     lum          |-> <<>>,   \* the brightness of each pixel read, on doubles
     fovea        |-> 0,      \* samples the fovea loop pushed when last generated
     loops        |-> <<>>,   \* the runs of the rejection loop when last generated
     generations  |-> 0,      \* calls of generateSamplePositions
     size         |-> <<0, 0>>, \* the texture size the last calculation found
     measured     |-> FALSE,  \* the last call of onUpdate measured the signal
     raw          |-> 0,      \* the last measurement: pitch angle or frame brightness
     sent         |-> 0,      \* the value passed to the last call of the send function
     sendFailed   |-> FALSE,  \* some call of the send function caught an exception
     sendThrew    |-> FALSE,  \* the last call of the send function did
     seeds        |-> 0]      \* times the seeding branch of BrightnessCalculator.js ran

\* `script.api.onTrigger = onTrigger`, and what another script may assign to
\* it afterwards: the function held by the exported field.
ApiTrigger == IF env.override THEN "replacement" ELSE "builtin"

\* `onTrigger()` / `onBrightnessTrigger()` in onUpdate: the call names the
\* function declaration of the script, not the exported field.
TriggerCallee == "builtin"

\* The history after a tick of the trigger timer.
ObsTimer(o, exceeding, wasOver, isOver, fire) ==
    [o EXCEPT !.retried = FALSE,
              !.timed = TRUE,
              !.callee = IF fire THEN TriggerCallee ELSE @,
              !.triggerCount = IF fire THEN @ + 1 ELSE @,
              !.episodeFires = IF ~exceeding THEN 0
                               ELSE IF fire THEN @ + 1 ELSE @,
              !.episodesOver = IF exceeding /\ isOver /\ ~wasOver THEN @ + 1 ELSE @]

\* The history after a call of onUpdate that returned early.
\* retried tells that it called initialize() first.
ObsSkip(o, retried) ==
    [o EXCEPT !.skipped = TRUE,
              !.measured = FALSE,
              !.timed = FALSE,
              !.retried = retried,
              !.retriedTwice = @ \/ (o.retried /\ retried)]

\* `state.frameCount % 60 === 0`: whether a skipped frame retries initialize().
RetryDue(st) == st.frameCount % 60 = 0

\* The history after the telemetry step of a frame: value is what the send
\* function is called with when it is due.
ObsSend(o, due, frame, value) ==
    [o EXCEPT !.sendFrames = IF due THEN Append(@, frame) ELSE @,
              !.sent = IF due THEN value ELSE @]

\* The history after a measurement of the signal.
ObsRaw(o, raw) == [o EXCEPT !.raw = raw, !.measured = TRUE]

\* `sendToBackend(state.pitchAngle, state.downDuration)`: the angle sent.
PostureSendValue(st) == st.pitchAngle

\* Whether building the telemetry request may throw on this frame.
SendThrows(due) == IF due /\ env.sendFaults THEN BOOLEAN ELSE {FALSE}

\* A variant in which the exception of a send escapes and ends onUpdate.
AfterSendUncaught(st, due, throws) ==
    IF due /\ ~throws THEN [st EXCEPT !.lastSentFrame = st.frameCount] ELSE st

\* `state.lastSentFrame = state.frameCount` after the send function returned:
\* it catches what it throws, so the assignment runs either way.
AfterSend(st, due, throws) ==
    IF due THEN [st EXCEPT !.lastSentFrame = st.frameCount] ELSE st

\* The history after a send function caught an exception.
ObsThrow(o, throws) ==
    [o EXCEPT !.sendFailed = @ \/ (throws /\ input.sendToBackend /\ input.backendUrl),
              !.sendThrew = IF Len(o.sendFrames) > Len(obs.sendFrames)
                            THEN throws /\ input.sendToBackend /\ input.backendUrl
                            ELSE @]

\* onUpdate while head tracking is not available: retry initialize() when
\* frameCount is a multiple of 60, skip the frame.
PostureSkipFrame ==
    /\ ~state.deviceTracking /\ ~state.headTransform
    /\ \E tracking \in BOOLEAN :
        state' = IF RetryDue(state)
                 THEN PostureInitialize(state, tracking, now')
                 ELSE state
    /\ obs' = ObsSkip(obs, RetryDue(state))
    /\ UNCHANGED <<alert, warningText, inflight>>

\* A variant that returns without having restarted the frame clock.
FrameCountedOnly(st, time) == [st EXCEPT !.frameCount = @ + 1]

\* `state.frameCount++; ... state.lastUpdateTime = currentTime;`: what onUpdate
\* has done when it returns for want of a rotation.
FrameCounted(st, time) ==
    [st EXCEPT !.frameCount = @ + 1, !.lastUpdateTime = time]

\* onUpdate with tracking but no usable rotation: getHeadRotation() returned
\* null or getPitchAngle threw; the frame and its time are counted.
PostureNoRotation ==
    /\ state.deviceTracking \/ state.headTransform
    /\ env.sensorFaults
    /\ state' = FrameCounted(state, now')
    /\ obs' = ObsSkip(obs, FALSE)
    /\ UNCHANGED <<alert, warningText, inflight>>

\* onUpdate on a frame with a rotation.
PostureFrame ==
    /\ state.deviceTracking \/ state.headTransform
    /\ \E rotation \in Rotations :
        \E t \in { PostureTimer([state EXCEPT !.frameCount = @ + 1,
                                              !.lastUpdateTime = now'],
                                GetPitchAngle(rotation),
                                now' - state.lastUpdateTime) } :
        \E due \in { SendDue(t.st) } :
            /\ alert' = AlertAfter(alert, t.fire)
            /\ warningText' = IF input.warningTextComponent
                              THEN WarningMessage(t.st)
                              ELSE warningText
            /\ \E throws \in SendThrows(due) :
                /\ inflight' = IF due /\ RequestIssued(throws)
                               THEN inflight + 1 ELSE inflight
                /\ state' = AfterSend(t.st, due, throws)
                /\ obs' = ObsThrow(ObsSend(
                   ObsTimer(ObsRaw(obs, GetPitchAngle(rotation)),
                            t.st.isLookingDown,
                            state.isLookingDown /\
                                state.downDuration > input.triggerDuration,
                            t.st.downDuration > input.triggerDuration,
                            t.fire),
                   due, t.st.frameCount, PostureSendValue(t.st)), throws)

PostureOnUpdate ==
    /\ script = "posture"
    /\ state.frameCount < env.frames
    /\ \E dt \in env.dts :
        /\ now + dt <= MaxTime
        /\ now' = now + dt
        /\ (PostureSkipFrame \/ PostureNoRotation \/ PostureFrame)
    /\ UNCHANGED <<script, input, env, priorAlert, display>>

-----------------------------------------------------------------------------
(* Brightness monitor (BrightnessCalculator.js): inputs, sampling *)

\* WCAG relative luminance coefficients.
WCAG_R == Lit(2126, 10000)
WCAG_G == Lit(7152, 10000)
WCAG_B == Lit(722, 10000)

\* @input int maxSamples, scaled down.
MaxSampleCount == 2

\* Smoothing factors tried: 0, 0.3 (the default) and 1.
SmoothingFactors == {0, Lit(3, 10), One}

BrightnessBase ==
    [maxSamples          |-> 1,
     calculationInterval |-> 1,
     smoothingFactor     |-> Lit(3, 10),
     foveaSize           |-> Lit(4, 10),
     brightnessThreshold |-> Lit(1, 2),
     triggerDuration     |-> 1,
     textComponent       |-> TRUE,
     showPercentage      |-> FALSE,
     sendToBackend       |-> FALSE,
     backendUrl          |-> TRUE,
     sendInterval        |-> 1]

\* The display inputs varied: no text component, percentage.
DisplayVaried(base) ==
    { [base EXCEPT !.textComponent = FALSE],
      [base EXCEPT !.showPercentage = TRUE] }

\* Smoothing factor and calculation interval varied.
SmoothingVaried(base) ==
    { [base EXCEPT !.smoothingFactor = k, !.calculationInterval = c] :
        k \in SmoothingFactors, c \in 1..MaxCalculationInterval }

\* Frames between two calculations, on a camera whose texture may be missing.
SparseSampling(base) ==
    { [base EXCEPT !.calculationInterval = MaxCalculationInterval + 1] }

\* More than one sample per frame.
SamplingVaried(base) == { [base EXCEPT !.maxSamples = MaxSampleCount] }

BrightnessScenarios ==
    UNION {
        { Scenario(BrightnessBase, JitterEnv, a) : a \in Priors },
        Across({ [BrightnessBase EXCEPT !.smoothingFactor = One,
                                        !.triggerDuration = d] :
                    d \in 1..MaxTriggerDuration }, JitterEnv),
        Across(DisplayVaried(BrightnessBase), SteadyEnv),
        Across(SmoothingVaried(BrightnessBase), SteadyEnv),
        Across(TelemetryOn(BrightnessBase), SendFaultEnv),
        Across(SamplingVaried(BrightnessBase), SensorFaultEnv),
        Across(SparseSampling(BrightnessBase), DropoutEnv),
        Across(SamplingVaried(BrightnessBase), ResizeEnv),
        Across({ [BrightnessBase EXCEPT !.smoothingFactor = One] }, OverrideEnv) }

\* Outcome of one getPixels call: it fills pixelData, or it throws.
GoodReads == { [ok |-> TRUE, rgb |-> c] : c \in env.pixels }
PixelReads == IF env.sensorFaults THEN GoodReads \cup {[ok |-> FALSE]} ELSE GoodReads

\* Values of Math.random() tried; the two coordinates of a periphery
\* candidate are drawn alike.
RandomDraws == env.draws

\* calculateBrightness(r, g, b)
CalculateBrightness(r, g, b) ==
    FAdd(FAdd(FMul(WCAG_R, r), FMul(WCAG_G, g)), FMul(WCAG_B, b))

FMin(a, b) == IF a < b THEN a ELSE b
FMax(a, b) == IF a > b THEN a ELSE b

\* Math.floor of a non-negative number, as an integer.
Floor(v) == v \div One

\* Math.sqrt, Math.cos(2 pi d) and Math.sin(2 pi d) on the draws of
\* Math.random() tried, 0 and 1/2; sin(pi) is below the resolution.
SqrtOfDraw(d) == IF d = 0 THEN 0 ELSE Lit(7071, 10000)
CosOfTurn(d) == IF d = 0 THEN One ELSE 0 - One
SinOfTurn(d) == 0

\* The share of the fovea rounded to the nearest integer instead.
FoveaCountRounded(maxSamples) ==
    Floor(FAdd(FMul(Num(maxSamples), Lit(7, 10)), Lit(1, 2)))

\* `var foveaSamples = Math.floor(maxSamples * 0.7)`
FoveaCount(maxSamples) == Floor(FMul(Num(maxSamples), Lit(7, 10)))

\* A fovea sample of generateFoveatedSamples for the draws a (angle) and r
\* (radius) of Math.random(): a point of the fovea circle, clamped to the
\* texture and normalised.
FoveaSample(width, height, foveaSize, a, r) ==
    LET centerX == FDiv(Num(width), Num(2))
        centerY == FDiv(Num(height), Num(2))
        foveaRadiusX == FDiv(FMul(Num(width), foveaSize), Num(2))
        foveaRadiusY == FDiv(FMul(Num(height), foveaSize), Num(2))
        radius == FMul(SqrtOfDraw(r), FMin(foveaRadiusX, foveaRadiusY))
        x == FMax(0, FMin(Num(width - 1), FAdd(centerX, FMul(CosOfTurn(a), radius))))
        y == FMax(0, FMin(Num(height - 1), FAdd(centerY, FMul(SinOfTurn(a), radius))))
    IN  [x |-> FDiv(x, Num(width)), y |-> FDiv(y, Num(height))]

\* The fovea samples the draws of Math.random() can produce.
FoveaSamples(width, height, foveaSize) ==
    { FoveaSample(width, height, foveaSize, a, r) : a \in RandomDraws, r \in RandomDraws }

\* distSq of a periphery candidate (x, y): its squared distance from the
\* centre in units of the fovea radii.
FoveaDistSq(x, y, width, height, foveaSize) ==
    LET centerX == FDiv(Num(width), Num(2))
        centerY == FDiv(Num(height), Num(2))
        foveaRadiusX == FDiv(FMul(Num(width), foveaSize), Num(2))
        foveaRadiusY == FDiv(FMul(Num(height), foveaSize), Num(2))
        dx == FDiv(FSub(x, centerX), foveaRadiusX)
        dy == FDiv(FSub(y, centerY), foveaRadiusY)
    IN  FAdd(FMul(dx, dx), FMul(dy, dy))

\* `attempts < 20`: the attempt budget of the rejection loop.
MaxAttempts == 20

\* The values Math.random() returns during one run of the rejection loop:
\* `head` for the first `turn` candidates, `tail` for all that follow.
Turns == {0, 1, MaxAttempts - 1, MaxAttempts}

DrawStreams ==
    { s \in [head : RandomDraws, tail : RandomDraws, turn : Turns] :
        (s.turn = 0) <=> (s.head = s.tail) }

\* The value drawn for the i-th candidate.
StreamDraw(stream, i) == IF i <= stream.turn THEN stream.head ELSE stream.tail

\* The candidate (x, y) of the i-th pass of the loop.
Candidate(stream, i, width, height) ==
    <<FMul(StreamDraw(stream, i), Num(width)),
      FMul(StreamDraw(stream, i), Num(height))>>

\* A variant of the loop whose budget is one attempt larger.
RECURSIVE RejectionLoopOneMore(_, _, _, _, _)
RejectionLoopOneMore(stream, attempts, width, height, foveaSize) ==
    LET c == Candidate(stream, attempts + 1, width, height)
    IN  IF /\ FoveaDistSq(c[1], c[2], width, height, foveaSize) < One
           /\ attempts + 1 <= MaxAttempts
        THEN RejectionLoopOneMore(stream, attempts + 1, width, height, foveaSize)
        ELSE [x |-> c[1], y |-> c[2], attempts |-> attempts + 1]

\* `do { ... attempts++ } while (distSq < 1.0 && attempts < 20)`: the passes
\* of the loop after `attempts` of them.  Returns the candidate it ends with
\* and the number of passes.
RECURSIVE RejectionLoop(_, _, _, _, _)
RejectionLoop(stream, attempts, width, height, foveaSize) ==
    LET c == Candidate(stream, attempts + 1, width, height)
    IN  IF /\ FoveaDistSq(c[1], c[2], width, height, foveaSize) < One
           /\ attempts + 1 < MaxAttempts
        THEN RejectionLoop(stream, attempts + 1, width, height, foveaSize)
        ELSE [x |-> c[1], y |-> c[2], attempts |-> attempts + 1]

\* One pass of the periphery loop for a stream of draws: the sample pushed,
\* the passes of the rejection loop, the stream.
PeripheryLoop(stream, width, height, foveaSize) ==
    LET r == RejectionLoop(stream, 0, width, height, foveaSize)
    IN  [x |-> FDiv(r.x, Num(width)), y |-> FDiv(r.y, Num(height)),
         attempts |-> r.attempts, stream |-> stream]

\* Whether the candidate made of the draw d lies inside the fovea ellipse of
\* the generation g.
DrawInside(g, d) ==
    LET x == FMul(d, Num(g.width))
        y == FMul(d, Num(g.height))
        dx == FDiv(FSub(x, FDiv(Num(g.width), Num(2))),
                   FDiv(FMul(Num(g.width), g.foveaSize), Num(2)))
        dy == FDiv(FSub(y, FDiv(Num(g.height), Num(2))),
                   FDiv(FMul(Num(g.height), g.foveaSize), Num(2)))
    IN  FAdd(FMul(dx, dx), FMul(dy, dy)) < One

\* What is remembered of one run l of the rejection loop in the generation g:
\* the candidates drawn, whether one of the candidates before the last lay
\* outside the fovea, whether the last did, and whether the sample pushed is
\* the last candidate.
ObsLoop(g, l) ==
    [attempts |-> l.attempts,
     passedOver |-> \E d \in { StreamDraw(l.stream, j) : j \in 1..(l.attempts - 1) } :
                        ~DrawInside(g, d),
     inside |-> DrawInside(g, StreamDraw(l.stream, l.attempts)),
     keptLast |-> /\ l.x = FDiv(FMul(StreamDraw(l.stream, l.attempts), Num(g.width)),
                                Num(g.width))
                  /\ l.y = FDiv(FMul(StreamDraw(l.stream, l.attempts), Num(g.height)),
                                Num(g.height))]

\* What one pass of the periphery loop can do: the sample pushed and what is
\* remembered of the run.
PeripheryLoops(width, height, foveaSize) ==
    LET g == [width |-> width, height |-> height, foveaSize |-> foveaSize]
    IN  { [x |-> l.x, y |-> l.y, trace |-> ObsLoop(g, l)] :
            l \in { PeripheryLoop(stream, width, height, foveaSize) :
                      stream \in DrawStreams } }

\* The periphery samples the rejection loop can end with: a candidate outside
\* the fovea, or, when all 20 attempts fell inside, the last candidate.
PeripherySamples(width, height, foveaSize) ==
    LET candidates == { <<FMul(r, Num(width)), FMul(r, Num(height))>> :
                            r \in RandomDraws }
        accepted  == { c \in candidates :
                         FoveaDistSq(c[1], c[2], width, height, foveaSize) >= One }
        exhausted == { c \in candidates :
                         FoveaDistSq(c[1], c[2], width, height, foveaSize) < One }
    IN  { [x |-> FDiv(c[1], Num(width)), y |-> FDiv(c[2], Num(height))] :
            c \in accepted \cup exhausted }

\* The two loops of generateFoveatedSamples: the samples the fovea loop and
\* the periphery loop can push.
FoveatedDraws(width, height, maxSamples, foveaSize) ==
    { [fovea |-> f,
       periphery |-> [i \in DOMAIN l |-> [x |-> l[i].x, y |-> l[i].y]],
       loops |-> [i \in DOMAIN l |-> l[i].trace]] :
        f \in [1..FoveaCount(maxSamples) -> FoveaSamples(width, height, foveaSize)],
        l \in [1..(maxSamples - FoveaCount(maxSamples)) ->
                  PeripheryLoops(width, height, foveaSize)] }

\* The samples array after the two loops.
SamplesOf(g) == g.fovea \o g.periphery

\* generateFoveatedSamples: the sample sequences it can return.
GenerateFoveatedSamples(width, height, maxSamples, foveaSize) ==
    { SamplesOf(g) : g \in FoveatedDraws(width, height, maxSamples, foveaSize) }

\* `script.foveaSize || 0.4`
FoveaSizeOrDefault == IF input.foveaSize = 0 THEN Lit(4, 10) ELSE input.foveaSize

\* generateSamplePositions
GenerateSamplePositions(width, height, maxSamples) ==
    GenerateFoveatedSamples(width, height, maxSamples, FoveaSizeOrDefault)

\* The draws behind generateSamplePositions.
SampleDraws(width, height, maxSamples) ==
    FoveatedDraws(width, height, maxSamples, FoveaSizeOrDefault)

\* calculateBrightness(r, g, b) with the red and green weights exchanged.
DoubleBrightnessSwapped(r, g, b) ==
    DAdd(DAdd(DMul(DRatio(7152, 10000), r), DMul(DRatio(2126, 10000), g)),
         DMul(DRatio(722, 10000), b))

\* calculateBrightness(r, g, b) on doubles.
DoubleBrightness(r, g, b) ==
    DAdd(DAdd(DMul(DRatio(2126, 10000), r), DMul(DRatio(7152, 10000), g)),
         DMul(DRatio(722, 10000), b))

\* The brightness of a pixel on doubles: `pixelData[i] / 255.0` passed to
\* calculateBrightness.
DoublePixelBrightness ==
    [c \in Pixels |-> DoubleBrightness(DRatio(c[1], 255), DRatio(c[2], 255),
                                       DRatio(c[3], 255))]

\* `state.smoothedValue > 0 ? state.smoothedValue : 0.0`
HoldValue(st) == IF st.smoothedValue > 0 THEN st.smoothedValue ELSE 0

\* The brightness of a pixel: its RGBA bytes divided by 255.0 and passed to
\* calculateBrightness.
PixelBrightness ==
    [c \in Pixels |-> CalculateBrightness(FDiv(Num(c[1]), Num(255)),
                                          FDiv(Num(c[2]), Num(255)),
                                          FDiv(Num(c[3]), Num(255)))]

\* The sum and count of the reads that succeeded, over samples 1..n.
RECURSIVE SumValid(_, _)
SumValid(reads, n) ==
    IF n = 0 THEN [total |-> 0, valid |-> 0]
    ELSE LET rest == SumValid(reads, n - 1)
         IN  IF reads[n].ok
             THEN [total |-> FAdd(rest.total, PixelBrightness[reads[n].rgb]),
                   valid |-> rest.valid + 1]
             ELSE rest

\* A variant that generates the sample positions only when there are none.
RegenerateWhenEmpty(st, size) == Len(st.cachedSamples) = 0

\* `textureWidth !== state.textureWidth || textureHeight !==
\*  state.textureHeight || state.cachedSamples.length === 0`: whether the
\* sample positions are generated anew for a texture of this size.
Regenerate(st, size) ==
    \/ size[1] # st.textureWidth
    \/ size[2] # st.textureHeight
    \/ Len(st.cachedSamples) = 0

\* calculateFrameBrightness(): texture is script.deviceCameraTexture being
\* set, provider the ProceduralTextureProvider being created, size the texture
\* size, samples the positions generated if they are regenerated, reads the
\* outcome of each getPixels call.  Returns the state and the brightness.
CalculateFrameBrightness(st, texture, provider, size, samples, reads) ==
    IF ~texture \/ ~provider
    THEN [st |-> st, brightness |-> HoldValue(st)]
    ELSE LET s1 == IF Regenerate(st, size)
                   THEN [st EXCEPT !.textureWidth = size[1],
                                   !.textureHeight = size[2],
                                   !.cachedSamples = samples]
                   ELSE st
             sum == SumValid(reads, Len(s1.cachedSamples))
         IN  [st |-> s1,
              brightness |-> IF sum.valid = 0
                             THEN HoldValue(s1)
                             ELSE FDiv(sum.total, Num(sum.valid))]

-----------------------------------------------------------------------------
(* Brightness monitor: state, smoothing, timer, display, onUpdate *)

\* The `state` object literal.
BrightnessState0 ==
    [value                 |-> 0,
     smoothedValue         |-> 0,
     frameCount            |-> 0,
     lastCalculatedFrame   |-> 0,
     lastSentFrame         |-> 0,
     lastSentTime          |-> 0,
     textureWidth          |-> 0,
     textureHeight         |-> 0,
     cachedSamples         |-> <<>>,
     isOverThreshold       |-> FALSE,
     overThresholdDuration |-> 0,
     lastUpdateTime        |-> 0,
     triggerActive         |-> FALSE,
     hasTriggered          |-> FALSE]

\* initialize(): with a camera texture assigned, cache its size and samples.
BrightnessInitialize(st, texture, size, samples) ==
    IF texture
    THEN [st EXCEPT !.textureWidth = size[1],
                    !.textureHeight = size[2],
                    !.cachedSamples = samples]
    ELSE st

\* A variant of the blend with the two weights exchanged.
BlendSwapped(smoothed, raw, k) ==
    FAdd(FMul(smoothed, k), FMul(raw, FSub(One, k)))

\* A variant of the blend that does not scale the previous value down.
BlendUnweighted(smoothed, raw, k) == FAdd(smoothed, FMul(raw, k))

\* `state.smoothedValue * (1.0 - script.smoothingFactor) +
\*  newBrightness * script.smoothingFactor`
Blend(smoothed, raw, k) ==
    FAdd(FMul(smoothed, FSub(One, k)), FMul(raw, k))

\* A variant in which a sample of 0 clears the smoothed value.
BrightnessSmoothClears(smoothed, newBrightness, k) ==
    IF smoothed = 0 /\ newBrightness > 0 THEN newBrightness
    ELSE IF newBrightness > 0 THEN Blend(smoothed, newBrightness, k)
    ELSE newBrightness

\* A variant that blends every sample once seeded, a sample of 0 too.
BrightnessSmoothEvery(smoothed, newBrightness, k) ==
    IF smoothed = 0 /\ newBrightness > 0 THEN newBrightness
    ELSE Blend(smoothed, newBrightness, k)

\* The exponential moving average of onUpdate: seed, blend, or leave
\* unchanged when the new brightness is not above 0.
BrightnessSmooth(smoothed, newBrightness, k) ==
    IF smoothed = 0 /\ newBrightness > 0 THEN newBrightness
    ELSE IF newBrightness > 0 THEN Blend(smoothed, newBrightness, k)
    ELSE smoothed

\* `state.isOverThreshold = state.smoothedValue > script.brightnessThreshold`
BrightnessExceeds(smoothed, threshold) == smoothed > threshold

\* `if (state.triggerActive && !wasTriggerActive && !state.hasTriggered)`
ShouldBrightnessTrigger(triggerActive, wasTriggerActive, hasTriggered) ==
    triggerActive /\ ~wasTriggerActive /\ ~hasTriggered

\* A variant of the reset that does not re-arm the trigger.
BrightnessResetStaysFired(st) ==
    [st EXCEPT !.overThresholdDuration = 0, !.triggerActive = FALSE]

\* A variant of the reset that keeps the accumulated duration.
BrightnessResetKeepsDuration(st) ==
    [st EXCEPT !.triggerActive = FALSE, !.hasTriggered = FALSE]

\* The else branch of the duration update: below the threshold the duration
\* and the trigger state are reset.
BrightnessReset(st) ==
    [st EXCEPT !.overThresholdDuration = 0, !.triggerActive = FALSE,
               !.hasTriggered = FALSE]

\* The threshold timer of onUpdate.  Returns the new state and whether
\* onBrightnessTrigger() was called.
BrightnessTimer(st, deltaTime) ==
    LET over == BrightnessExceeds(st.smoothedValue, input.brightnessThreshold)
        s1 == [st EXCEPT !.isOverThreshold = over]
        s2 == IF over
              THEN [s1 EXCEPT !.overThresholdDuration = @ + deltaTime]
              ELSE BrightnessReset(s1)
        wasTriggerActive == s2.triggerActive
        active == DurationExceeded(s2.overThresholdDuration, input.triggerDuration)
        fire == ShouldBrightnessTrigger(active, wasTriggerActive, s2.hasTriggered)
    IN  [st   |-> [s2 EXCEPT !.triggerActive = active,
                             !.hasTriggered = IF fire THEN TRUE ELSE @],
         fire |-> fire]

\* Number.prototype.toFixed(digits) of a non-negative value: the decimal
\* rounded to that many places, as the integer of its digits.
ToFixed(v, digits) == (2 * v * (10 ^ digits) + One) \div (2 * One)

\* cachedText, lastDisplayedValue and the text component before any frame.
Display0 == [cachedText |-> <<"">>, lastDisplayedValue |-> 0 - One, text |-> <<"">>]

\* The text display of onUpdate: rewritten only when the value moved by more
\* than the update threshold.
DisplayUpdate(d, smoothed) ==
    IF ~input.textComponent THEN d
    ELSE LET displayValue == IF input.showPercentage
                             THEN FMul(smoothed, Num(100)) ELSE smoothed
             threshold == IF input.showPercentage THEN Lit(1, 10) ELSE Lit(1, 1000)
             text == IF input.showPercentage
                     THEN <<"Brightness: ", ToFixed(displayValue, 2), "%">>
                     ELSE <<"Brightness: ", ToFixed(displayValue, 4)>>
         IN  IF Abs(FSub(displayValue, d.lastDisplayedValue)) > threshold
             THEN [cachedText |-> text, lastDisplayedValue |-> displayValue,
                   text |-> text]
             ELSE d

\* The history after a frame on which a brightness sample was calculated.
ObsCalc(o, raw) ==
    [o EXCEPT !.raw = raw,
              !.measured = TRUE,
              !.nCalc = @ + 1,
              !.firstRaw = IF o.nCalc = 0 THEN raw ELSE @,
              !.constRaw = IF o.nCalc = 0 THEN TRUE ELSE @ /\ raw = o.firstRaw]

\* The history after the smoothing step of BrightnessCalculator.js:
\* `if (state.smoothedValue === 0.0 && newBrightness > 0.0)` is the seeding
\* branch.
ObsSeed(o, smoothed, newBrightness) ==
    [o EXCEPT !.seeds = IF smoothed = 0 /\ newBrightness > 0 THEN @ + 1 ELSE @]

\* A variant that sends the raw brightness of the last calculated frame.
BrightnessSendRaw(st) == st.value

\* `sendBrightnessToBackend(state.smoothedValue)`: the brightness sent.
BrightnessSendValue(st) == st.smoothedValue

\* The history after the pixel reads of a calculated sample.
ObsReads(o, reads) ==
    [o EXCEPT !.reads = reads,
              !.lum = SubSeq([i \in 1..Len(reads) |->
                                IF reads[i].ok THEN DoublePixelBrightness[reads[i].rgb]
                                ELSE DZero], 1, Len(reads))]

\* The history after generateSamplePositions ran with the draws g.
ObsGenerate(o, g) ==
    [o EXCEPT !.fovea = Len(g.fovea),
              !.generations = @ + 1,
              !.loops = g.loops]

\* `(state.frameCount - state.lastCalculatedFrame) >= script.calculationInterval`
ShouldCalculate(st) ==
    (st.frameCount - st.lastCalculatedFrame) >= input.calculationInterval

\* The draws of Math.random() on a frame: those of generateSamplePositions
\* when the positions are generated anew, none otherwise.
SamplesDrawn(st, size) ==
    IF Regenerate(st, size)
    THEN SampleDraws(size[1], size[2], input.maxSamples)
    ELSE {[fovea |-> <<>>, periphery |-> <<>>]}

\* The history after the sample positions of a frame were looked up.
ObsDrawn(o, st, size, g) ==
    [(IF Regenerate(st, size) THEN ObsGenerate(o, g) ELSE o) EXCEPT !.size = size]

\* onUpdate with no camera texture assigned: retry initialize() (which finds
\* no texture either) every 60th frame, count the frame, return.
BrightnessSkipFrame ==
    /\ env.sensorFaults
    /\ state' = [(IF RetryDue(state)
                  THEN BrightnessInitialize(state, FALSE, <<0, 0>>, <<>>)
                  ELSE state)
                    EXCEPT !.frameCount = @ + 1]
    /\ obs' = ObsSkip(obs, RetryDue(state))
    /\ UNCHANGED <<alert, display, inflight>>

\* The rest of onUpdate once the brightness of the frame is known: c is the
\* result of calculateFrameBrightness on a calculation frame, o the history
\* after it.
BrightnessFrame(calculate, c, o) ==
    \E s1 \in { IF calculate
                THEN [c.st EXCEPT !.frameCount = state.frameCount + 1,
                                  !.lastUpdateTime = now',
                                  !.smoothedValue =
                                      BrightnessSmooth(@, c.brightness,
                                                       input.smoothingFactor),
                                  !.value = c.brightness,
                                  !.lastCalculatedFrame = state.frameCount + 1]
                ELSE [c.st EXCEPT !.frameCount = state.frameCount + 1,
                                  !.lastUpdateTime = now'] } :
    \E t \in { BrightnessTimer(s1, now' - state.lastUpdateTime) } :
    \E due \in { SendDue(t.st) } :
        /\ alert' = AlertAfter(alert, t.fire)
        /\ display' = DisplayUpdate(display, t.st.smoothedValue)
        /\ \E throws \in SendThrows(due) :
            /\ inflight' = IF due /\ RequestIssued(throws)
                           THEN inflight + 1 ELSE inflight
            /\ state' = AfterSend(t.st, due, throws)
            /\ obs' = ObsThrow(ObsSend(
               ObsTimer(IF calculate
                        THEN ObsSeed(ObsCalc(o, c.brightness),
                                     c.st.smoothedValue, c.brightness)
                        ELSE [o EXCEPT !.measured = FALSE],
                        t.st.isOverThreshold,
                        state.isOverThreshold /\
                            state.overThresholdDuration > input.triggerDuration,
                        t.st.overThresholdDuration > input.triggerDuration,
                        t.fire),
               due, t.st.frameCount, BrightnessSendValue(t.st)), throws)

\* onUpdate on a frame between two calculations.
BrightnessIdleFrame ==
    /\ ~ShouldCalculate([state EXCEPT !.frameCount = @ + 1])
    /\ BrightnessFrame(FALSE, [st |-> state, brightness |-> 0], obs)

\* onUpdate on a frame on which the brightness is calculated.
BrightnessCalcFrame ==
    /\ ShouldCalculate([state EXCEPT !.frameCount = @ + 1])
    /\ \/ /\ env.sensorFaults    \* no ProceduralTextureProvider
          /\ \E c \in { CalculateFrameBrightness(state, TRUE, FALSE, <<0, 0>>,
                                                  <<>>, <<>>) } :
                BrightnessFrame(TRUE, c, ObsReads(obs, <<>>))
       \/ \E size \in env.sizes :
          \E g \in SamplesDrawn(state, size),
             reads \in [1..input.maxSamples -> PixelReads] :
          \E c \in { CalculateFrameBrightness(state, TRUE, TRUE, size,
                                               SamplesOf(g), reads) } :
                BrightnessFrame(TRUE, c,
                                ObsReads(ObsDrawn(obs, state, size, g), reads))

BrightnessOnUpdate ==
    /\ script = "brightness"
    /\ state.frameCount < env.frames
    /\ \E dt \in env.dts :
        /\ now + dt <= MaxTime
        /\ now' = now + dt
        /\ (BrightnessSkipFrame \/ BrightnessIdleFrame \/ BrightnessCalcFrame)
    /\ UNCHANGED <<script, input, env, priorAlert, warningText>>

-----------------------------------------------------------------------------
(* The earlier brightness script (HeadAngle.js, lines 329-643) *)

LegacyBase ==
    [maxSamples          |-> 1,
     calculationInterval |-> 1,
     smoothingFactor     |-> Lit(3, 10),
     foveaSize           |-> Lit(4, 10),
     textComponent       |-> TRUE,
     showPercentage      |-> FALSE,
     sendToBackend       |-> FALSE,
     backendUrl          |-> TRUE,
     sendInterval        |-> 1]

LegacyScenarios ==
    UNION {
        Across({ LegacyBase }, JitterEnv),
        Across(DisplayVaried(LegacyBase), SteadyEnv),
        Across(SmoothingVaried(LegacyBase), SteadyEnv),
        Across(TelemetryOn(LegacyBase), SendFaultEnv),
        Across(SamplingVaried(LegacyBase), SensorFaultEnv),
        Across(SamplingVaried(LegacyBase), ResizeEnv) }

\* The `state` object literal.
LegacyState0 ==
    [value               |-> 0,
     smoothedValue       |-> 0,
     frameCount          |-> 0,
     lastCalculatedFrame |-> 0,
     lastSentFrame       |-> 0,
     lastSentTime        |-> 0,
     textureWidth        |-> 0,
     textureHeight       |-> 0,
     cachedSamples       |-> <<>>]

\* The brightness of a colour returned by texture.sample, whose channels are
\* already normalised: 0 or 1 for the colours of Pixels.
SampledBrightness ==
    [c \in Pixels |-> CalculateBrightness(Num(c[1] \div 255), Num(c[2] \div 255),
                                          Num(c[3] \div 255))]

\* The sum of the sampled brightness over samples 1..n; colors[i] is what
\* texture.sample returned for sample i.
RECURSIVE SumSampled(_, _)
SumSampled(colors, n) ==
    IF n = 0 THEN 0
    ELSE FAdd(SumSampled(colors, n - 1), SampledBrightness[colors[n]])

\* calculateFrameBrightness(texture)
LegacyCalculateFrameBrightness(st, size, samples, colors) ==
    LET s1 == IF Regenerate(st, size)
              THEN [st EXCEPT !.textureWidth = size[1],
                              !.textureHeight = size[2],
                              !.cachedSamples = samples]
              ELSE st
        sampleCount == Len(s1.cachedSamples)
    IN  [st |-> s1,
         brightness |-> IF sampleCount > 0
                        THEN FDiv(SumSampled(colors, sampleCount), Num(sampleCount))
                        ELSE 0]

\* A variant that blends the first sample against the initial 0.0.
LegacySmoothUnseeded(smoothed, newBrightness, k) == Blend(smoothed, newBrightness, k)

\* The exponential moving average of onUpdate: seed while the smoothed value
\* is 0.0, blend otherwise.
LegacySmooth(smoothed, newBrightness, k) ==
    IF smoothed = 0 THEN newBrightness
    ELSE Blend(smoothed, newBrightness, k)

LegacyFrame(calculate, c, o) ==
    \E s1 \in { IF calculate
                THEN [c.st EXCEPT !.frameCount = state.frameCount + 1,
                                  !.smoothedValue =
                                      LegacySmooth(@, c.brightness,
                                                   input.smoothingFactor),
                                  !.value = c.brightness,
                                  !.lastCalculatedFrame = state.frameCount + 1]
                ELSE [c.st EXCEPT !.frameCount = state.frameCount + 1] } :
    \E due \in { SendDue(s1) } :
        /\ display' = DisplayUpdate(display, s1.smoothedValue)
        /\ \E throws \in SendThrows(due) :
            /\ inflight' = IF due /\ RequestIssued(throws)
                           THEN inflight + 1 ELSE inflight
            /\ state' = AfterSend(s1, due, throws)
            /\ obs' = ObsThrow(
                   ObsSend(IF calculate THEN ObsCalc(o, c.brightness)
                                        ELSE [o EXCEPT !.measured = FALSE],
                           due, s1.frameCount, BrightnessSendValue(s1)), throws)

\* onUpdate while global.scene.liveTarget is not ready: nothing happens.
LegacySkipFrame ==
    /\ env.sensorFaults
    /\ obs' = ObsSkip(obs, FALSE)
    /\ UNCHANGED <<state, display, inflight>>

LegacyIdleFrame ==
    /\ ~ShouldCalculate([state EXCEPT !.frameCount = @ + 1])
    /\ LegacyFrame(FALSE, [st |-> state, brightness |-> 0], obs)

LegacyCalcFrame ==
    /\ ShouldCalculate([state EXCEPT !.frameCount = @ + 1])
    /\ \E size \in env.sizes :
       \E g \in SamplesDrawn(state, size),
          colors \in [1..input.maxSamples -> env.pixels] :
       \E c \in { LegacyCalculateFrameBrightness(state, size, SamplesOf(g),
                                                 colors) } :
            LegacyFrame(TRUE, c, ObsDrawn(obs, state, size, g))

LegacyOnUpdate ==
    /\ script = "legacy"
    /\ state.frameCount < env.frames
    /\ \E dt \in env.dts :
        /\ now + dt <= MaxTime
        /\ now' = now + dt
        /\ (LegacySkipFrame \/ LegacyIdleFrame \/ LegacyCalcFrame)
    /\ UNCHANGED <<script, input, env, alert, priorAlert, warningText>>

-----------------------------------------------------------------------------
(* Completion of a telemetry request *)

\* A variant whose error callback makes the next tick send again.
AfterCompletionResends(st, ok) ==
    IF ok THEN st ELSE [st EXCEPT !.lastSentFrame = 0]

\* The state after a callback ran: ok tells the response callback from the
\* error callback.
AfterCompletion(st, ok) ==
    IF script \in {"brightness", "legacy"} /\ ok
    THEN [st EXCEPT !.lastSentTime = now]
    ELSE st

\* The .then / .catch callbacks of InternetModule.fetch and the callback of
\* global.http.post.  The posture callbacks only log; a response to a
\* brightness send records state.lastSentTime = getTime().
RequestCompleted ==
    /\ inflight > 0
    /\ inflight' = inflight - 1
    /\ \E ok \in BOOLEAN : state' = AfterCompletion(state, ok)
    /\ UNCHANGED <<script, input, env, now, alert, priorAlert, warningText, display,
                   obs>>

-----------------------------------------------------------------------------
(* The state after the script is loaded *)

\* initialize() at load: the DeviceTracking input is assigned unless the
\* host's sensors may be missing.
InitPosture(sc) ==
    /\ script = "posture"
    /\ obs = Obs0
    /\ \E tracking \in (IF sc.env.sensorFaults THEN BOOLEAN ELSE {TRUE}) :
        state = PostureInitialize(PostureState0, tracking, 0)

\* initialize() at load, and `state.lastUpdateTime = getTime()`.
InitBrightness(sc) ==
    /\ script = "brightness"
    /\ \/ /\ sc.env.sensorFaults
          /\ state = BrightnessInitialize(BrightnessState0, FALSE, <<0, 0>>, <<>>)
          /\ obs = Obs0
       \/ \E size \in sc.env.sizes :
          \E g \in SampleDraws(size[1], size[2], sc.input.maxSamples) :
            /\ state = BrightnessInitialize(BrightnessState0, TRUE, size,
                                            SamplesOf(g))
            /\ obs = ObsGenerate(Obs0, g)

InitLegacy(sc) ==
    /\ script = "legacy"
    /\ state = LegacyState0
    /\ obs = Obs0

Init ==
    /\ now = 0
    /\ warningText = <<"">>
    /\ display = Display0
    /\ inflight = 0
    /\ \E sc \in PostureScenarios \cup BrightnessScenarios \cup LegacyScenarios :
        /\ input = sc.input
        /\ env = sc.env
        /\ priorAlert = sc.prior
        /\ alert = LoadAlert(sc.prior)
        /\ \/ sc \in PostureScenarios /\ InitPosture(sc)
           \/ sc \in BrightnessScenarios /\ InitBrightness(sc)
           \/ sc \in LegacyScenarios /\ InitLegacy(sc)

Next ==
    \/ PostureOnUpdate
    \/ BrightnessOnUpdate
    \/ LegacyOnUpdate
    \/ RequestCompleted

Spec == Init /\ [][Next]_vars

-----------------------------------------------------------------------------
(* The threshold timer: properties *)

\* The scripts that run a threshold timer.
HasTimer == script \in {"posture", "brightness"}

\* The exceed flag and the accumulated exceed duration of the running script.
ExceedFlag ==
    IF script = "posture" THEN state.isLookingDown ELSE state.isOverThreshold

ExceedDuration ==
    IF script = "posture" THEN state.downDuration ELSE state.overThresholdDuration

\* The accumulated duration is strictly above the configured triggerDuration
\* while the exceed condition holds.
OverDuration == ExceedFlag /\ ExceedDuration > input.triggerDuration

\* C1: within one continuous exceed-episode (since the exceed condition was
\* last false) the trigger function has been called at most once.
C1_AtMostOncePerEpisode == obs.episodeFires <= 1

\* An episode that went on, still active, for a further tick after its firing.
C1_Witness ==
    /\ HasTimer
    /\ obs.episodeFires = 1
    /\ state.triggerActive
    /\ ExceedDuration > input.triggerDuration + MaxDt

\* C2: the trigger function is called on a tick if and only if that tick takes
\* the accumulated exceed duration from not above triggerDuration to strictly
\* above it: on the first such tick of an episode, never earlier, never when
\* the duration only equals triggerDuration, and never a second time.
C2_FiresOnFirstTickOver ==
    [][HasTimer =>
        ((obs'.triggerCount = obs.triggerCount + 1) <=> (OverDuration' /\ ~OverDuration))
        /\ obs'.triggerCount \in {obs.triggerCount, obs.triggerCount + 1}]_vars

\* One firing, on the second tick of an episode, with the duration one clock
\* unit above a triggerDuration of 2.
C2_Witness ==
    /\ HasTimer
    /\ input.triggerDuration = 2
    /\ ExceedDuration = 3
    /\ state.frameCount = 2
    /\ obs.triggerCount = 1
    /\ ~obs.skipped

\* C3: in a state left by a tick on which the exceed condition was false the
\* accumulated duration is 0 and hasTriggered is false, and the number of
\* trigger firings equals the number of exceed-episodes whose accumulated
\* duration went strictly above triggerDuration.
C3_Rearming ==
    /\ obs.triggerCount = obs.episodesOver
    /\ HasTimer /\ ~ExceedFlag => ExceedDuration = 0 /\ ~state.hasTriggered

\* Two episodes fired, one after the other.
C3_Witness == HasTimer /\ obs.triggerCount = 2 /\ obs.episodesOver = 2

\* C4: triggerActive is true exactly when the exceed flag is true and the
\* accumulated exceed duration is strictly greater than triggerDuration, also
\* after ticks that returned early.
C4_TriggerActiveIff ==
    HasTimer => (state.triggerActive <=> OverDuration)

\* The trigger is active after a tick that returned early.
C4_Witness ==
    /\ script = "posture"
    /\ obs.skipped
    /\ state.triggerActive
    /\ state.lastUpdateTime > state.downDuration

\* C5: the accumulated exceed duration is never negative, is 0 whenever the
\* exceed flag is false, goes to 0 only on a tick that takes the exceed flag
\* from true to false, does so on every such tick, and never decreases while
\* the exceed flag stays true.
C5_DurationReset ==
    /\ [](HasTimer => ExceedDuration >= 0 /\ (~ExceedFlag => ExceedDuration = 0))
    /\ [][HasTimer =>
            /\ (ExceedDuration # 0 /\ ExceedDuration' = 0) => (ExceedFlag /\ ~ExceedFlag')
            /\ (ExceedFlag /\ ~ExceedFlag') => ExceedDuration' = 0
            /\ (ExceedFlag /\ ExceedFlag') => ExceedDuration' >= ExceedDuration]_vars

\* The duration back at 0 after an episode that had fired.
C5_Witness ==
    /\ HasTimer
    /\ ~ExceedFlag
    /\ ExceedDuration = 0
    /\ obs.triggerCount = 1
    /\ state.frameCount >= 2

-----------------------------------------------------------------------------
(* Telemetry throttle and the alert flag: properties *)

\* C6: the send function is called only on a tick where frameCount minus
\* lastSentFrame is at least sendInterval, that tick sets lastSentFrame to
\* frameCount, a request goes out only on such a tick, and the frameCount gap
\* between two consecutive sends (and before the first) is at least
\* sendInterval.
C6_SendThrottle ==
    /\ [](/\ \A i \in 1..Len(obs.sendFrames) :
                obs.sendFrames[i] - (IF i = 1 THEN 0 ELSE obs.sendFrames[i - 1])
                    >= input.sendInterval
          /\ Len(obs.sendFrames) > 0 =>
                state.lastSentFrame = obs.sendFrames[Len(obs.sendFrames)])
    /\ [][(inflight' > inflight \/ obs'.sendFrames # obs.sendFrames) =>
            /\ Len(obs'.sendFrames) = Len(obs.sendFrames) + 1
            /\ state'.frameCount - state.lastSentFrame >= input.sendInterval
            /\ state'.lastSentFrame = state'.frameCount]_vars

\* Two sends, two frames apart, with sendInterval = 2.
C6_Witness ==
    /\ input.sendInterval = 2
    /\ Len(obs.sendFrames) = 2
    /\ obs.sendFrames[2] - obs.sendFrames[1] = 2

\* C7: global.alert is true exactly when it was already true when the script
\* was loaded or the trigger has fired since, and no step takes it from true
\* back to false.
C7_AlertLatched ==
    /\ [](alert <=> (priorAlert = "true" \/ obs.triggerCount > 0))
    /\ [][alert => alert']_vars

\* The flag is still true after the timer was reset, and the flag is true
\* only because the trigger fired.
C7_Witness ==
    /\ HasTimer
    /\ alert
    /\ priorAlert = "false"
    /\ obs.triggerCount = 1
    /\ ~ExceedFlag
    /\ ~state.hasTriggered

-----------------------------------------------------------------------------
(* Smoothing: properties *)

\* A tick on which a brightness sample is calculated.
CalcTick == obs'.nCalc = obs.nCalc + 1

\* The smoothing factor lies strictly between 0 and 1.
InnerFactor == 0 < input.smoothingFactor /\ input.smoothingFactor < One

\* smoothed * (1 - k) + raw * k for the states before and after a tick, raw
\* being the sample of the tick.
BlendOfTick ==
    FAdd(FMul(state.smoothedValue, FSub(One, input.smoothingFactor)),
         FMul(state'.value, input.smoothingFactor))

\* One unit in the last place of the values just below 1.0.
Ulp == One \div (2 ^ MantBits)

\* C8: after the first calculated sample smoothedValue equals that sample.
C8_Seeding == obs.nCalc = 1 => state.smoothedValue = obs.firstRaw

\* A first sample above 0 with a smoothing factor that would have changed it.
C8_Witness ==
    /\ obs.nCalc = 1
    /\ obs.firstRaw > 0
    /\ InnerFactor
    /\ state.smoothedValue = obs.firstRaw

\* C9 as stated: once a first sample was calculated, every calculated sample,
\* a sample of 0 included, is blended: smoothed' = smoothed*(1-k) + raw*k.
C9_Original ==
    [][CalcTick /\ obs.nCalc >= 1 => state'.smoothedValue = BlendOfTick]_vars

\* C9 amended: once a first sample was calculated, a calculated sample above 0
\* is blended into a smoothedValue that is not 0; a sample that arrives while
\* smoothedValue is 0 becomes the new smoothedValue unblended; a sample of 0
\* leaves a smoothedValue that is not 0 unchanged in BrightnessCalculator.js
\* and is blended in the earlier script of HeadAngle.js.
C9_BlendUnlessZero ==
    [][CalcTick /\ obs.nCalc >= 1 =>
        state'.smoothedValue =
            IF state.smoothedValue = 0 THEN state'.value
            ELSE IF state'.value > 0 \/ script = "legacy" THEN BlendOfTick
            ELSE state.smoothedValue]_vars

\* A later sample above 0 was blended into a different smoothedValue.
C9_Witness ==
    /\ obs.nCalc >= 2
    /\ InnerFactor
    /\ state.value > 0
    /\ state.smoothedValue # state.value
    /\ state.smoothedValue # obs.firstRaw

\* C10 as stated, of BrightnessCalculator.js: with 0 < k < 1 and a constant
\* raw value v, the distance |smoothedValue - v| never increases and
\* smoothedValue never crosses v.
C10_Original ==
    [][script = "brightness" /\ CalcTick /\ obs.nCalc >= 1 /\ obs'.constRaw
            /\ InnerFactor =>
        LET v == obs.firstRaw
        IN  /\ Abs(state'.smoothedValue - v) <= Abs(state.smoothedValue - v)
            /\ state.smoothedValue >= v => state'.smoothedValue >= v
            /\ state.smoothedValue <= v => state'.smoothedValue <= v]_vars

\* C10 amended: with 0 < k < 1, on every tick that calculates a sample v the
\* distance |smoothedValue - v| grows by no more than the rounding of the
\* blend, 3 units in the last place, and smoothedValue ends no further than
\* that on the other side of v.
C10_ConvergesUpToRounding ==
    [][CalcTick /\ InnerFactor =>
        LET v == state'.value
        IN  /\ Abs(state'.smoothedValue - v) <= Abs(state.smoothedValue - v) + 3 * Ulp
            /\ state.smoothedValue >= v => state'.smoothedValue >= v - 3 * Ulp
            /\ state.smoothedValue <= v => state'.smoothedValue <= v + 3 * Ulp]_vars

\* Three equal samples, and a smoothedValue that rounding has moved off them.
C10_Witness ==
    /\ obs.nCalc >= 3
    /\ obs.constRaw
    /\ InnerFactor
    /\ state.value = obs.firstRaw
    /\ state.smoothedValue # obs.firstRaw

-----------------------------------------------------------------------------
(* Sampling: properties *)

\* The sum of the brightness of the reads rs[1..n], added in order.
RECURSIVE SumOfReads(_, _)
SumOfReads(rs, n) ==
    IF n = 0 THEN 0 ELSE FAdd(SumOfReads(rs, n - 1), PixelBrightness[rs[n].rgb])

\* The reads of the sample calculated on this tick that succeeded.
ReadsOk == SelectSeq(obs'.reads, LAMBDA r : r.ok)

\* C11 as stated, of BrightnessCalculator.js: the brightness of a calculated
\* frame is the average over the reads that succeeded only, and on a tick
\* where every read fails, or the texture or its provider is unavailable,
\* smoothedValue after the tick equals smoothedValue before it.
C11_Original ==
    [][script = "brightness" =>
        /\ CalcTick /\ Len(ReadsOk) > 0 =>
              state'.value = FDiv(SumOfReads(ReadsOk, Len(ReadsOk)), Num(Len(ReadsOk)))
        /\ CalcTick /\ Len(ReadsOk) = 0 => state'.smoothedValue = state.smoothedValue
        /\ ~CalcTick => state'.smoothedValue = state.smoothedValue]_vars

\* Whether a sample position has both normalised coordinates within [0, 1].
InUnitSquare(q) == 0 <= q.x /\ q.x <= One /\ 0 <= q.y /\ q.y <= One

\* The sample set of a brightness script once generateSamplePositions ran.
SamplesGenerated == script \in {"brightness", "legacy"} /\ obs.generations > 0

-----------------------------------------------------------------------------
(* Which value is compared and sent: properties *)

\* The send function was called on this step.
SendCalled == Len(obs'.sendFrames) = Len(obs.sendFrames) + 1

\* The signal was measured on this step: a pitch angle or a frame brightness.
Measured == obs' # obs /\ obs'.measured

-----------------------------------------------------------------------------
(* smoothingFactor 0 and 1: properties *)

\* C14 as stated: with smoothingFactor = 1 smoothedValue is the raw value of
\* the tick after every calculation tick; with smoothingFactor = 0 it never
\* changes after the first sample.
C14_Original ==
    [][CalcTick =>
        /\ input.smoothingFactor = One => state'.smoothedValue = state'.value
        /\ input.smoothingFactor = 0 /\ obs.nCalc >= 1
              => state'.smoothedValue = state.smoothedValue]_vars

\* C14: with smoothingFactor = 1, smoothedValue after a calculation tick is
\* the raw value of the tick, except that BrightnessCalculator.js keeps the
\* previous smoothedValue on a tick whose raw value is 0; with
\* smoothingFactor = 0, a smoothedValue that is not 0 never changes, while a
\* smoothedValue of 0 is seeded again by the next sample (in
\* BrightnessCalculator.js by the next sample above 0).
C14_EdgeFactors ==
    [][CalcTick =>
        /\ input.smoothingFactor = One =>
              state'.smoothedValue =
                  IF script = "brightness" /\ state'.value = 0
                  THEN state.smoothedValue ELSE state'.value
        /\ input.smoothingFactor = 0 =>
              state'.smoothedValue =
                  IF state.smoothedValue # 0 THEN state.smoothedValue
                  ELSE state'.value]_vars

\* With smoothingFactor = 1 a second sample replaced a different first one.
C14_Witness ==
    /\ script \in {"brightness", "legacy"}
    /\ input.smoothingFactor = One
    /\ obs.nCalc >= 2
    /\ state.smoothedValue = state.value
    /\ state.value > 0
    /\ obs.firstRaw > 0
    /\ obs.firstRaw # state.value

-----------------------------------------------------------------------------
(* The luminance formula: properties *)

\* The pixels read on the last calculated frame of the brightness monitor.
PixelsRead == IF script = "brightness" THEN DOMAIN obs.lum ELSE {}

\* C15: on doubles, calculateBrightness of a pixel lies in [0, 1]; of
\* (1, 1, 1) it is exactly 1.0, of (0, 0, 0) exactly 0.0, of (1, 0, 0) exactly
\* the double 0.2126; and it is the double nearest to
\* 0.2126 r + 0.7152 g + 0.0722 b for the colours read.
C15_Luminance ==
    \A i \in PixelsRead :
        obs.reads[i].ok =>
            LET c == obs.reads[i].rgb
                v == obs.lum[i]
            IN  /\ DLeq(DZero, v) /\ DLeq(v, DOne)
                /\ c = White => v = DOne
                /\ c = Black => v = DZero
                /\ c = Red => v = DRatio(2126, 10000)
                /\ v = DRatio(2126 * c[1] + 7152 * c[2] + 722 * c[3], 10000 * 255)

\* A frame on which a white pixel and one on which a red pixel was read.
C15_Witness ==
    /\ script = "brightness"
    /\ obs.nCalc >= 2
    /\ Len(obs.reads) > 0
    /\ obs.reads[1].ok
    /\ obs.reads[1].rgb = White
    /\ obs.lum[1] = DOne
    /\ obs.firstRaw = PixelBrightness[Red]

-----------------------------------------------------------------------------
(* Overriding the trigger: properties *)

\* The trigger function was called on this step.
TriggerFired == obs'.triggerCount = obs.triggerCount + 1

\* C16 as stated: once another script has replaced the exported trigger
\* function, a firing trigger invokes the replacement, not the built-in
\* handler.
C16_Original ==
    [][TriggerFired => obs'.callee = ApiTrigger]_vars

-----------------------------------------------------------------------------
(* Caching of the sample positions: properties *)

\* calculateFrameBrightness got as far as the sample positions on this step:
\* it had a texture and, in BrightnessCalculator.js, a texture provider.
Sampled == CalcTick /\ (script = "legacy" \/ Len(obs'.reads) > 0)

\* The cached positions fit the texture the calculation of this step found.
CacheFits ==
    /\ Len(state.cachedSamples) > 0
    /\ obs'.size = <<state.textureWidth, state.textureHeight>>

-----------------------------------------------------------------------------
(* Sensor unavailable: properties *)

\* A call of onUpdate that found the sensor unavailable: no tracking
\* (posture), no camera texture (brightness).
UnavailableTick ==
    /\ script \in {"posture", "brightness"}
    /\ obs' # obs
    /\ ~obs'.measured
    /\ IF script = "posture"
       THEN state'.frameCount = state.frameCount
       ELSE state'.lastUpdateTime = state.lastUpdateTime
              /\ state'.frameCount = state.frameCount + 1

\* C18 as stated: a tick on which the sensor is unavailable changes neither
\* the signal value nor the exceed duration, triggerActive, hasTriggered,
\* fires no trigger and sends nothing; and initialize() is retried at most
\* once in 60 consecutive unavailable ticks, so never on two ticks in a row.
C18_Original ==
    /\ [](~obs.retriedTwice)
    /\ [][UnavailableTick =>
            /\ state'.triggerActive = state.triggerActive
            /\ state'.hasTriggered = state.hasTriggered
            /\ obs'.triggerCount = obs.triggerCount
            /\ obs'.sendFrames = obs.sendFrames
            /\ inflight' = inflight
            /\ IF script = "posture"
               THEN /\ state'.pitchAngle = state.pitchAngle
                    /\ state'.downDuration = state.downDuration
               ELSE /\ state'.smoothedValue = state.smoothedValue
                    /\ state'.overThresholdDuration = state.overThresholdDuration]_vars

-----------------------------------------------------------------------------
(* The time step of the timer: properties *)

\* A call of onUpdate that ran the threshold timer.
TimerTick == HasTimer /\ obs'.timed /\ state'.frameCount = state.frameCount + 1

\* C19 as stated: a tick that adds to the exceed duration adds the time since
\* the call of onUpdate before it, whether or not that call was skipped; now
\* is the clock at that call, or at load.
C19_Original ==
    [][TimerTick /\ ExceedFlag' => ExceedDuration' = ExceedDuration + (now' - now)]_vars

-----------------------------------------------------------------------------
(* Failure of a telemetry send: properties *)

\* A call of the send function that threw before a request went out.
SendFailed == SendCalled /\ input.backendUrl /\ inflight' = inflight

\* C20: a send that fails by an exception is caught: the tick completes (the
\* frame is counted, the timer has run) and lastSentFrame is the frameCount
\* of the tick; every send, after a failed one too, comes at least
\* sendInterval frames after the send before it; a request goes out only in
\* a due send, so nothing is queued or retried; and the completion of a
\* request, rejected or not, changes neither lastSentFrame nor the history
\* and issues no request.
C20_FailureDropped ==
    [][/\ SendCalled =>
            /\ state'.lastSentFrame = state'.frameCount
            /\ state'.frameCount = state.frameCount + 1
            /\ state'.frameCount - state.lastSentFrame >= input.sendInterval
            /\ inflight' \in {inflight, inflight + 1}
       /\ SendFailed => (HasTimer => obs'.timed)
       /\ ~SendCalled => inflight' <= inflight
       /\ inflight' < inflight =>
            /\ inflight' = inflight - 1
            /\ obs' = obs
            /\ state'.lastSentFrame = state.lastSentFrame
            /\ state'.frameCount = state.frameCount]_vars

\* A send that threw, and a later send that went out.
C20_Witness ==
    /\ obs.sendFailed
    /\ Len(obs.sendFrames) >= 2
    /\ inflight = 1
    /\ state.lastSentFrame = state.frameCount
    /\ input.sendInterval >= 2

-----------------------------------------------------------------------------
(* Requests in flight: properties *)

\* A call of onUpdate that ran to its end: the frame was counted and, in the
\* scripts with a threshold timer, the timer ran.
CompleteTick ==
    /\ state'.frameCount = state.frameCount + 1
    /\ HasTimer => obs'.timed

\* The throttle condition of the telemetry send is met on this step.
ThrottleMet ==
    /\ input.sendToBackend
    /\ state'.frameCount - state.lastSentFrame >= input.sendInterval

\* C21: on a tick that meets the throttle condition the send function is
\* called and, unless the URL is empty or building the request throws, a new
\* request goes out, however many earlier requests are still in flight; the
\* number in flight grows by one with every such send.
C21_NoGating ==
    [][/\ (CompleteTick /\ ThrottleMet) => SendCalled
       /\ (SendCalled /\ input.backendUrl /\ ~obs'.sendThrew) =>
              inflight' = inflight + 1]_vars

\* Three requests in flight at once, none of the sends completed.
C21_Witness ==
    /\ inflight = 3
    /\ Len(obs.sendFrames) = 3
    /\ ~obs.sendFailed

-----------------------------------------------------------------------------
(* Completion callbacks: properties *)

\* A completion or error callback of a request ran on this step.
CallbackRan == inflight' = inflight - 1

\* C22: a completion or error callback, whenever it runs between two ticks,
\* changes no monitoring state: the signal value, smoothedValue, the exceed
\* flag and duration, triggerActive, hasTriggered, frameCount, lastSentFrame,
\* the calculation frame and cachedSamples, global.alert and the texts shown
\* are as before it.  All it leaves behind is state.lastSentTime of the two
\* brightness scripts, which no code reads.
C22_CallbacksInert ==
    [][CallbackRan =>
        /\ state' = IF script = "posture" THEN state
                    ELSE [state EXCEPT !.lastSentTime = state'.lastSentTime]
        /\ alert' = alert
        /\ warningText' = warningText
        /\ display' = display
        /\ obs' = obs
        /\ now' = now]_vars

\* A callback ran between the tick of a first send and a later tick that
\* sent again.
C22_Witness ==
    /\ script = "brightness"
    /\ ~obs.sendFailed
    /\ Len(obs.sendFrames) = 2
    /\ inflight = 1
    /\ state.lastSentTime > 0
    /\ state.lastSentTime < now
    /\ state.lastSentFrame = state.frameCount

-----------------------------------------------------------------------------
(* The rejection loop of the periphery samples: properties *)

\* C23: every run of the rejection loop draws at least one and at most 20
\* candidates and pushes the last one drawn; no candidate before the last
\* lay outside the fovea ellipse, so the first candidate outside is the one
\* accepted; and a run whose last candidate lies inside the fovea has used
\* all 20 attempts.
C23_LoopTerminates ==
    \A i \in DOMAIN obs.loops :
        /\ obs.loops[i].attempts \in 1..MaxAttempts
        /\ obs.loops[i].keptLast
        /\ ~obs.loops[i].passedOver
        /\ obs.loops[i].inside => obs.loops[i].attempts = MaxAttempts

\* A set whose periphery sample is the 20th candidate, inside the fovea like
\* the 19 before it, generated after a set whose periphery sample was
\* accepted.
C23_Witness ==
    /\ script \in {"brightness", "legacy"}
    /\ obs.generations >= 2
    /\ Len(obs.loops) > 0
    /\ obs.loops[1].attempts = MaxAttempts
    /\ obs.loops[1].inside
    /\ obs.loops[1].keptLast

-----------------------------------------------------------------------------
(* The posture warning text: properties *)

\* C24: after a tick of the posture monitor that ran to its end with a text
\* component assigned, the warning text is empty exactly when triggerActive
\* is false; when triggerActive is true it is the URGENT message exactly when
\* downDuration > 2 * triggerDuration and the "Look Up!" message otherwise,
\* and it prints the downDuration of the tick.
C24_WarningText ==
    [][(script = "posture" /\ CompleteTick /\ input.warningTextComponent) =>
        /\ (warningText' = <<"">>) <=> ~state'.triggerActive
        /\ state'.triggerActive =>
              /\ Len(warningText') = 2
              /\ warningText'[2] = state'.downDuration
              /\ warningText'[1] =
                    IF state'.downDuration > 2 * input.triggerDuration
                    THEN "URGENT: Look Up Now!"
                    ELSE "Look Up! You've been looking down for"]_vars

\* The URGENT message is shown on the third frame or later, the trigger
\* having fired once.
C24_Witness ==
    /\ script = "posture"
    /\ input.warningTextComponent
    /\ state.triggerActive
    /\ state.downDuration > 2 * input.triggerDuration
    /\ warningText = <<"URGENT: Look Up Now!", state.downDuration>>
    /\ obs.triggerCount = 1
    /\ state.frameCount >= 3

-----------------------------------------------------------------------------
(* hasTriggered and triggerActive: properties *)

\* C25: with the configuration fixed and no clock step below 0, hasTriggered
\* equals triggerActive after every tick, and triggerActive, once true, turns
\* false only on a tick of the timer on which the exceed condition is false.
C25_TriggerFlags ==
    /\ [](HasTimer => (state.hasTriggered <=> state.triggerActive))
    /\ [][(HasTimer /\ state.triggerActive /\ ~state'.triggerActive) =>
              (TimerTick /\ ~ExceedFlag')]_vars

\* The brightness trigger fired on the second frame of an episode and is
\* still active on the third.
C25_Witness ==
    /\ script = "brightness"
    /\ env.dts = {1}
    /\ input.triggerDuration = 1
    /\ state.overThresholdDuration = 3
    /\ state.isOverThreshold
    /\ state.triggerActive
    /\ state.hasTriggered

-----------------------------------------------------------------------------
(* Frames between two calculations: properties *)

\* A tick of the brightness monitor that ran the threshold timer without
\* calculating a new sample.
IdleTick == script = "brightness" /\ TimerTick /\ ~obs'.measured

\* C26 as stated: a tick of the brightness monitor with a camera texture on
\* which no sample is calculated leaves smoothedValue, value and
\* lastCalculatedFrame unchanged and still runs the timer: when the stale
\* smoothedValue is above the threshold, overThresholdDuration grows by dt,
\* the time since the call of onUpdate before it.
C26_Original ==
    [][IdleTick =>
        /\ state'.smoothedValue = state.smoothedValue
        /\ state'.value = state.value
        /\ state'.lastCalculatedFrame = state.lastCalculatedFrame
        /\ state'.isOverThreshold =
              (state.smoothedValue > input.brightnessThreshold)
        /\ state'.isOverThreshold =>
              state'.overThresholdDuration =
                  state.overThresholdDuration + (now' - now)]_vars

-----------------------------------------------------------------------------
(* The smoothed brightness stays above 0: properties *)

\* C27: in BrightnessCalculator.js a smoothedValue above 0 is above 0 after
\* every later step, so the seeding branch runs at most once in a run; and a
\* calculated frame whose brightness is exactly 0 leaves smoothedValue as it
\* was.
C27_StaysPositive ==
    /\ [](script = "brightness" => obs.seeds <= 1)
    /\ [][(script = "brightness") =>
            /\ (state.smoothedValue > 0) => (state'.smoothedValue > 0)
            /\ (CalcTick /\ state'.value = 0) =>
                  (state'.smoothedValue = state.smoothedValue)
            /\ (obs'.seeds # obs.seeds) =>
                  (/\ CalcTick
                   /\ state.smoothedValue = 0
                   /\ state'.smoothedValue = state'.value
                   /\ state'.value > 0)]_vars

\* After a first sample of 0 the value was seeded by a later sample, and a
\* frame of brightness 0 has since left it above 0.
C27_Witness ==
    /\ script = "brightness"
    /\ obs.seeds = 1
    /\ obs.firstRaw = 0
    /\ obs.nCalc >= 3
    /\ obs.measured
    /\ state.value = 0
    /\ state.smoothedValue > 0

-----------------------------------------------------------------------------
(* Telemetry progress: properties *)

-----------------------------------------------------------------------------
(* Posture ticks without a rotation: properties *)

\* A tick of the posture monitor that counted the frame and returned before
\* the timer: no rotation, or the pitch could not be extracted.
NoRotationTick ==
    /\ script = "posture"
    /\ state'.frameCount = state.frameCount + 1
    /\ ~obs'.timed

\* C29: a tick of the posture monitor with tracking but without a usable
\* rotation increments frameCount and sets lastUpdateTime to the clock, and
\* leaves pitchAngle, isLookingDown, downDuration, triggerActive,
\* hasTriggered, lastSentFrame, the warning text and global.alert as they
\* were; the trigger is not called, the send function is not called and no
\* request goes out.
C29_NoRotationTick ==
    [][NoRotationTick =>
        /\ state'.lastUpdateTime = now'
        /\ state'.pitchAngle = state.pitchAngle
        /\ state'.isLookingDown = state.isLookingDown
        /\ state'.downDuration = state.downDuration
        /\ state'.triggerActive = state.triggerActive
        /\ state'.hasTriggered = state.hasTriggered
        /\ state'.lastSentFrame = state.lastSentFrame
        /\ warningText' = warningText
        /\ alert' = alert
        /\ obs'.triggerCount = obs.triggerCount
        /\ obs'.sendFrames = obs.sendFrames
        /\ inflight' = inflight]_vars

\* A tick without a rotation in the middle of an episode: the trigger is
\* still active, and the time of the tick is not part of downDuration.
C29_Witness ==
    /\ script = "posture"
    /\ state.deviceTracking
    /\ obs.skipped
    /\ ~obs.timed
    /\ state.frameCount >= 2
    /\ state.triggerActive
    /\ warningText # <<"">>
    /\ state.lastUpdateTime = now
    /\ state.downDuration < now

=============================================================================
